---- MODULE Spec2Model ----
(***************************************************************************)
(* Model of the robot-Viz1 motion core: the simplified dynamics            *)
(* (services/dynamics.ts), the TOPP-RA planner (services/toppra.ts) and    *)
(* the playback loop of App.tsx.                                           *)
(*                                                                         *)
(* Numbers.  The program computes in IEEE doubles.  The model computes in  *)
(* fixed point: a real x is the integer trunc(x * SCALE), so one unit is   *)
(* 1e-5 (rad, s, Nm, ...).  Magnitudes of INF units (10000.0) and above    *)
(* stand for +-Infinity; arithmetic saturates there.  Every product and    *)
(* quotient is computed limb-wise so that no intermediate value leaves the *)
(* 32-bit range of TLC's integers.                                         *)
(***************************************************************************)
EXTENDS Integers, Sequences, FiniteSets, TLC

VARIABLES
  pc,             \* where generateTimeOptimalTrajectory stands
  startJoints,    \* its first argument
  endJoints,      \* its second argument
  coeffs,         \* A_coeffs, B_coeffs, C_coeffs (per grid point)
  s_dot_limit,    \* the maximum velocity curve
  beta_curve,     \* the backward velocity curve
  raw_s_ddot,     \* the raw acceleration profile
  smooth_s_ddot,  \* the smoothed acceleration profile
  result,         \* what the call returned (or threw)
  now,                  \* Date.now(), in milliseconds
  mode,                 \* the mode state and modeRef
  isPlaying,            \* the isPlaying state
  isPlayingRef,
  time,                 \* the time state: the elapsed time shown, in 1e-5 s
  isDwelling,           \* the isDwelling state
  jointsRef,            \* the joint state emitted last
  startTimeRef,         \* in milliseconds
  requestRef,           \* TRUE while an animation frame for the loop is pending
  trajectoryRef,        \* the active trajectory: a sequence of frames
  trajStartElapsedRef,  \* the move-start anchor, in 1e-5 s; negative: to be reset
  dwellStartTimeRef,    \* <<>> for null, <<t>> for the time t in milliseconds
  caller,               \* the handler that waits for the planner, or "none"
  clicks                \* how many times the user has clicked so far

plannerVars == <<pc, startJoints, endJoints, coeffs, s_dot_limit, beta_curve, raw_s_ddot,
                 smooth_s_ddot, result>>

ctrlVars == <<now, mode, isPlaying, isPlayingRef, time, isDwelling, jointsRef,
              startTimeRef, requestRef, trajectoryRef, trajStartElapsedRef,
              dwellStartTimeRef, caller, clicks>>

vars == <<plannerVars, ctrlVars>>

\* one unit is 1e-5
SCALE == 10 ^ 5

\* magnitudes from 10000.0 on are infinite
INF == 10 ^ 9

(* ---------------------------------------------------------------------- *)
(* Fixed-point arithmetic (the Math.* and operator semantics of the code)  *)
(* ---------------------------------------------------------------------- *)
Abs(x) == IF x < 0 THEN -x ELSE x

Sgn(x) == IF x < 0 THEN -1 ELSE 1

Min2(a, b) == IF a < b THEN a ELSE b

Max2(a, b) == IF a > b THEN a ELSE b

Sat(x) == IF x > INF THEN INF ELSE IF x < -INF THEN -INF ELSE x

\* a + b with overflow to +-Infinity
Add(a, b) == Sat(a + b)

\* a - b with overflow to +-Infinity
Sub(a, b) == Sat(a - b)

\* floor(a * b / SCALE) for 0 <= a, b <= INF, saturating at INF
FxMulNN(a, b) ==
  LET a1 == a \div SCALE
      a0 == a % SCALE
      b1 == b \div SCALE
      b0 == b % SCALE
      x1 == a0 \div 1000
      x0 == a0 % 1000
      p  == x1 * b0
      q  == x0 * b0
      lo == (p \div 100) + (((p % 100) * 1000 + q) \div SCALE)
  IN  IF a1 * b1 >= 10000 THEN INF
      ELSE Sat(Sat(a1 * b1 * SCALE + a1 * b0) + Sat(a0 * b1 + lo))

\* a * b in fixed point (truncating toward zero)
FxMul(a, b) == Sgn(a) * Sgn(b) * FxMulNN(Abs(a), Abs(b))

RECURSIVE FracDigits(_, _, _)
\* the first n decimal digits of r / b, for 0 <= r < b <= 200000000
FracDigits(r, b, n) ==
  IF n = 0 THEN 0
  ELSE LET t == r * 10
       IN  (t \div b) * (10 ^ (n - 1)) + FracDigits(t % b, b, n - 1)

\* floor(a * SCALE / b) for 0 <= a <= INF, 0 < b <= INF, saturating at INF
FxDivNN(a, b) ==
  LET big == b > 200000000
      aa  == IF big THEN a \div 10 ELSE a
      bb  == IF big THEN b \div 10 ELSE b
      q0  == aa \div bb
  IN  IF q0 >= 10000 THEN INF
      ELSE q0 * SCALE + FracDigits(aa % bb, bb, 5)

\* a / b in fixed point; x / 0 is +-Infinity as in IEEE (0 / 0 is taken as 0)
FxDiv(a, b) ==
  IF b = 0 THEN (IF a = 0 THEN 0 ELSE Sgn(a) * INF)
  ELSE Sgn(a) * Sgn(b) * FxDivNN(Abs(a), Abs(b))

\* one step of the schoolbook square root: from r*r + rem = y to the root of
\* 100*y + pair
SqrtStep(rr, pair) ==
  LET r == rr[1]
      R == 100 * rr[2] + pair
      d == CHOOSE e \in 0..9 :
             /\ (20 * r + e) * e <= R
             /\ (e = 9 \/ (20 * r + e + 1) * (e + 1) > R)
  IN  <<10 * r + d, R - (20 * r + d) * d>>

\* <<floor(sqrt(y)), remainder>> for 0 <= y < 2^31
ISqrtRem(y) ==
  LET s1 == SqrtStep(<<0, 0>>, y \div 100000000)
      s2 == SqrtStep(s1, (y \div 1000000) % 100)
      s3 == SqrtStep(s2, (y \div 10000) % 100)
      s4 == SqrtStep(s3, (y \div 100) % 100)
  IN  SqrtStep(s4, y % 100)

\* Math.sqrt on fixed point: floor(sqrt(x * SCALE)) for 0 <= x <= INF.
\* Below 2000.0 the root is exact to the unit; above, x is first cut to
\* 1e-2 resolution (relative error below 1e-5).
FxSqrt(x) ==
  IF x >= INF THEN INF
  ELSE IF x < 200000000
       THEN SqrtStep(SqrtStep(ISqrtRem(10 * x), 0), 0)[1]
       ELSE SqrtStep(SqrtStep(SqrtStep(ISqrtRem(x \div 1000), 0), 0), 0)[1] * 10


PI == 314159

\* the denominators (2n-1)(2n) of the cosine series, innermost term last
CosDenominators == <<2, 12, 30, 56, 90>>

RECURSIVE CosSeries(_, _)
\* 1 - z/d[n] (1 - z/d[n+1] (1 - ...)), the Taylor polynomial of the cosine
\* in z = x^2 from its term n on
CosSeries(z, n) ==
  IF n > Len(CosDenominators) THEN SCALE
  ELSE SCALE - FxMul(z, CosSeries(z, n + 1)) \div CosDenominators[n]

\* Math.cos on fixed point, for |x| <= 3*PI/2 (the sums of joint angles the
\* program forms stay below 3.5 rad): reduction to [0, PI/2] and the Taylor
\* polynomial up to x^10; accurate to a few units (1e-5).
FxCos(x) ==
  LET y0  == Abs(x)
      neg == y0 > PI \div 2
      y   == IF y0 > PI THEN y0 - PI ELSE IF neg THEN PI - y0 ELSE y0
  IN  IF neg THEN -CosSeries(FxMul(y, y), 1) ELSE CosSeries(FxMul(y, y), 1)

(* ---------------------------------------------------------------------- *)
(* services/dynamics.ts.  Joints are numbered 1..6 here (0..5 in the code) *)
(* ---------------------------------------------------------------------- *)
JOINTS == 1..6

\* ROBOT_PARAMS, in units of 1e-5 kg and 1e-5 m
masses == <<500000, 800000, 600000, 200000, 100000, 50000>>

lengths == <<29000, 27000, 30000, 10000, 5000, 5000>>

com == <<15000, 13000, 15000, 5000, 2000, 1000>>

ROBOT_PARAMS == [masses |-> masses, lengths |-> lengths, com |-> com]

\* MAX_TORQUES = [80, 80, 40, 20, 10, 10] Nm
MAX_TORQUES == <<8000000, 8000000, 4000000, 2000000, 1000000, 1000000>>

\* G = 9.81
G == 981000

JointState(a, v, acc, t) == [angle |-> a, velocity |-> v, acceleration |-> acc, torque |-> t]

\* calculateGravityTorques: only joints 2, 3 and 5 carry a gravity torque,
\* mass * G * com * cos(angle sum) with the effective masses m2_eff, m3_eff
\* and masses[5] and the angle sums q2, q2 + q3 and q2 + q3 + q5
calculateGravityTorques(joints, params) ==
  LET q     == [i \in 1..Len(joints) |-> joints[i].angle]
      m_eff == <<0, params.masses[2] + params.masses[3] + params.masses[4],
                 params.masses[3] + params.masses[4], 0, params.masses[5], 0>>
      sum   == <<0, q[2], q[2] + q[3], 0, q[2] + q[3] + q[5], 0>>
  IN  [i \in JOINTS |->
        IF i \in {2, 3, 5}
        THEN FxMul(FxMul(FxMul(m_eff[i], G), params.com[i]), FxCos(sum[i]))
        ELSE 0]

\* sum of the masses (params.masses.reduce)
SumMasses(params) ==
  params.masses[1] + params.masses[2] + params.masses[3]
    + params.masses[4] + params.masses[5] + params.masses[6]

\* calculateInverseDynamics: gravity + (inertia + coupling) * qdd
\* + 0.1 * qd * |qd|; the base joint is overridden to total mass * 0.1 * qdd
calculateInverseDynamics(joints, params) ==
  LET grav == calculateGravityTorques(joints, params)
      tq(i) ==
        LET inertia     == FxMul(params.masses[i], FxMul(params.lengths[i], params.lengths[i]))
            coupling    == (6 - i) * (SCALE \div 2)
            centrifugal == FxMul(FxMul(SCALE \div 10, joints[i].velocity),
                                 Abs(joints[i].velocity))
        IN  Add(Add(grav[i], FxMul(inertia + coupling, joints[i].acceleration)),
                centrifugal)
  IN  [i \in JOINTS |->
        IF i = 1
        THEN FxMul(FxMul(SumMasses(params), SCALE \div 10), joints[1].acceleration)
        ELSE tq(i)]

(* ---------------------------------------------------------------------- *)
(* services/frictionModel.ts (calculateJointFriction).  The friction       *)
(* torque is modelled from its documented contract: the velocity is        *)
(* normalised to a bounded input and mapped to a torque that is a fixed    *)
(* fraction of the joint's torque limit at saturation.                     *)
(* ---------------------------------------------------------------------- *)
\* normalising velocity: 150 deg/s = 2.61 rad/s
FRICTION_VEL_NORM == 261000

\* friction at saturation: 5 % of MAX_TORQUES
FRICTION_FRACTION == 5000

calculateJointFriction(i, velocity) ==
  LET x == Max2(-SCALE, Min2(SCALE, FxDiv(velocity, FRICTION_VEL_NORM)))
  IN  FxMul(FxMul(FRICTION_FRACTION, MAX_TORQUES[i]), x)


(* ---------------------------------------------------------------------- *)
(* services/toppra.ts                                                      *)
(* ---------------------------------------------------------------------- *)
RECURSIVE Loop(_, _, _, _)
\* for (k = lo; k <= hi; k++) st = Body(k, st).  The range is halved and the
\* state after the lower half is computed (the test left = left) before the
\* upper half is entered, which keeps the evaluation shallow.
Loop(Body(_, _), lo, hi, st) ==
  IF lo > hi THEN st
  ELSE IF lo = hi THEN Body(lo, st)
  ELSE LET mid  == (lo + hi) \div 2
           left == Loop(Body, lo, mid, st)
       IN  IF left = left THEN Loop(Body, mid + 1, hi, left) ELSE st

N_GRID == 200

\* PLAYBACK_SPEED_FACTOR = 1.0
PLAYBACK_SPEED_FACTOR == 100000

\* the smoothing half-width (windowSize)
windowSize == 10

\* ds = 1.0 / N_GRID
ds == FxDiv(SCALE, N_GRID * SCALE)

\* a frame of the trajectory: the joint states with the attached .time
Frame(joints, t) == [joints |-> joints, time |-> t]

\* what a call hands to its caller: a trajectory, or a propagated exception
Returned(points, duration) == [kind |-> "ok", points |-> points, duration |-> duration]

Thrown == [kind |-> "throw", points |-> <<>>, duration |-> 0]

\* a faulty variant of FallbackFrame: the frame time is left as the fraction
\* i / steps instead of being scaled by the duration
FallbackFrame_TimeNotScaled(start, end, i) ==
  LET steps == 60
      t     == FxDiv(i * SCALE, steps * SCALE)
  IN  Frame([idx \in 1..Len(start) |->
               JointState(start[idx].angle
                            + FxMul(end[idx].angle - start[idx].angle, t), 0, 0, 0)],
            t)

\* one frame of the linear fallback, i in 0..steps; steps = 60, duration = 3.0
FallbackFrame(start, end, i) ==
  LET duration == 3 * SCALE
      steps    == 60
      t        == FxDiv(i * SCALE, steps * SCALE)
  IN  Frame([idx \in 1..Len(start) |->
               JointState(start[idx].angle
                            + FxMul(end[idx].angle - start[idx].angle, t), 0, 0, 0)],
            FxMul(t, duration))

\* generateLinearFallback; reading end[idx].angle past the end of endJ
\* raises a TypeError
generateLinearFallback(start, end) ==
  IF Len(end) < Len(start) THEN Thrown
  ELSE Returned([n \in 1..61 |-> FallbackFrame(start, end, n - 1)], 3 * SCALE)

\* a faulty variant of Deltaq: the start angle is not subtracted
Deltaq_StartNotSubtracted(startJ, endJ) == [i \in 1..Len(endJ) |-> endJ[i].angle]

\* deltaq = endq.map((e, i) => e - startq[i])
Deltaq(startJ, endJ) == [i \in 1..Len(endJ) |-> endJ[i].angle - startJ[i].angle]

RECURSIVE SumSquares(_, _)
SumSquares(dq, n) == IF n = 0 THEN 0 ELSE SumSquares(dq, n - 1) + dq[n] * dq[n]

RECURSIVE FxSumSquares(_, _)
FxSumSquares(dq, n) ==
  IF n = 0 THEN 0 ELSE Add(FxSumSquares(dq, n - 1), FxMul(dq[n], dq[n]))

\* dist = Math.sqrt(deltaq.reduce((a, b) => a + b*b, 0)); for short moves the
\* squares are summed at full resolution
Dist(dq) ==
  IF \A i \in 1..Len(dq) : Abs(dq[i]) < 15000
  THEN ISqrtRem(SumSquares(dq, Len(dq)))[1]
  ELSE FxSqrt(FxSumSquares(dq, Len(dq)))

\* q_curr at grid point k, as joint states with the given velocity and
\* acceleration vectors
ProbeState(startq, deltaq, k, vel, acc) ==
  LET s == FxDiv(k * SCALE, N_GRID * SCALE)
  IN  [i \in JOINTS |-> JointState(startq[i] + FxMul(s, deltaq[i]), vel[i], acc[i], 0)]

ZeroVec == [i \in JOINTS |-> 0]

\* a faulty variant of Coefficients: the gravity torque is left in B
Coefficients_GravityInB(C, tau_acc, tau_vel) ==
  [A |-> [i \in JOINTS |-> tau_acc[i] - C[i]],
   B |-> [i \in JOINTS |-> tau_vel[i]],
   C |-> [i \in JOINTS |-> C[i]]]

\* A = tau_acc - C, B = tau_vel - C
Coefficients(C, tau_acc, tau_vel) ==
  [A |-> [i \in JOINTS |-> tau_acc[i] - C[i]],
   B |-> [i \in JOINTS |-> tau_vel[i] - C[i]],
   C |-> [i \in JOINTS |-> C[i]]]

\* step 1: the coefficients A (inertia), B (velocity), C (gravity) at point k
CoeffsAt(startq, deltaq, k) ==
  Coefficients(
    calculateGravityTorques(ProbeState(startq, deltaq, k, ZeroVec, ZeroVec), ROBOT_PARAMS),
    calculateInverseDynamics(ProbeState(startq, deltaq, k, ZeroVec, deltaq), ROBOT_PARAMS),
    calculateInverseDynamics(ProbeState(startq, deltaq, k, deltaq, ZeroVec), ROBOT_PARAMS))

ComputeCoefficients(startq, deltaq) ==
  [k \in 0..N_GRID |-> CoeffsAt(startq, deltaq, k)]

RECURSIVE MaxSdSq_LastJointWins(_, _, _)
\* a faulty variant of MaxSdSq: the bound of a joint replaces the minimum so
\* far instead of lowering it
MaxSdSq_LastJointWins(co, i, acc) ==
  IF i > 6 THEN acc
  ELSE LET b     == co.B[i]
           c     == co.C[i]
           t_lim == MAX_TORQUES[i]
           nxt   == IF b > 0
                    THEN (IF t_lim - c < 0 THEN 0 ELSE FxDiv(t_lim - c, b))
                    ELSE IF b < 0
                    THEN (IF -t_lim - c > 0 THEN 0 ELSE FxDiv(-t_lim - c, b))
                    ELSE acc
       IN  MaxSdSq_LastJointWins(co, i + 1, nxt)

RECURSIVE MaxSdSq(_, _, _)
\* step 2, the loop over the joints 1..i at one grid point: the largest
\* admissible sd^2 under -T <= b*sd^2 + c <= T
MaxSdSq(co, i, acc) ==
  IF i > 6 THEN acc
  ELSE LET b     == co.B[i]
           c     == co.C[i]
           t_lim == MAX_TORQUES[i]
           nxt   == IF b > 0
                    THEN (IF t_lim - c < 0 THEN 0 ELSE Min2(acc, FxDiv(t_lim - c, b)))
                    ELSE IF b < 0
                    THEN (IF -t_lim - c > 0 THEN 0 ELSE Min2(acc, FxDiv(-t_lim - c, b)))
                    ELSE acc
       IN  MaxSdSq(co, i + 1, nxt)

\* step 2: the maximum velocity curve, with both end points forced to 0
ComputeMVC(cf) ==
  [k \in 0..N_GRID |->
     IF k = 0 \/ k = N_GRID THEN 0
     ELSE FxSqrt(Max2(0, MaxSdSq(cf[k], 1, INF)))]

NoBounds == [ok |-> FALSE, min |-> 0, max |-> 0]

RECURSIVE AccBoundsFrom_NoFlip(_, _, _, _, _, _)
\* a faulty variant of AccBoundsFrom: the bounds of a joint with negative a
\* are not swapped
AccBoundsFrom_NoFlip(co, deltaq, s_dot, i, u_min, u_max) ==
  IF i > 6 THEN (IF u_min > u_max THEN NoBounds
                 ELSE [ok |-> TRUE, min |-> u_min, max |-> u_max])
  ELSE LET a          == co.A[i]
           b          == co.B[i]
           c          == co.C[i]
           sd_sq      == FxMul(s_dot, s_dot)
           f          == calculateJointFriction(i, FxMul(s_dot, deltaq[i]))
           total_bias == Add(Add(FxMul(b, sd_sq), c), f)
           lower      == Sub(-MAX_TORQUES[i], total_bias)
           upper      == Sub(MAX_TORQUES[i], total_bias)
       IN  IF Abs(a) < 1
           THEN (IF lower > 0 \/ upper < 0 THEN NoBounds
                 ELSE AccBoundsFrom_NoFlip(co, deltaq, s_dot, i + 1, u_min, u_max))
           ELSE AccBoundsFrom_NoFlip(co, deltaq, s_dot, i + 1,
                                     Max2(u_min, FxDiv(lower, a)), Min2(u_max, FxDiv(upper, a)))

RECURSIVE AccBoundsFrom(_, _, _, _, _, _)
\* the loop of getAccBounds over the joints i..6
AccBoundsFrom(co, deltaq, s_dot, i, u_min, u_max) ==
  IF i > 6 THEN (IF u_min > u_max THEN NoBounds
                 ELSE [ok |-> TRUE, min |-> u_min, max |-> u_max])
  ELSE LET a          == co.A[i]
           b          == co.B[i]
           c          == co.C[i]
           sd_sq      == FxMul(s_dot, s_dot)
           f          == calculateJointFriction(i, FxMul(s_dot, deltaq[i]))
           total_bias == Add(Add(FxMul(b, sd_sq), c), f)
           lower      == Sub(-MAX_TORQUES[i], total_bias)
           upper      == Sub(MAX_TORQUES[i], total_bias)
       IN  IF Abs(a) < 1
           THEN (IF lower > 0 \/ upper < 0 THEN NoBounds
                 ELSE AccBoundsFrom(co, deltaq, s_dot, i + 1, u_min, u_max))
           ELSE IF a > 0
           THEN AccBoundsFrom(co, deltaq, s_dot, i + 1,
                              Max2(u_min, FxDiv(lower, a)), Min2(u_max, FxDiv(upper, a)))
           ELSE AccBoundsFrom(co, deltaq, s_dot, i + 1,
                              Max2(u_min, FxDiv(upper, a)), Min2(u_max, FxDiv(lower, a)))

\* step 3: getAccBounds(k, s_dot); |a| < 1e-5 is a = 0 at this resolution
getAccBounds(cf, deltaq, k, s_dot) ==
  AccBoundsFrom(cf[k], deltaq, s_dot, 1, -INF, INF)

\* a faulty variant of BetaAt: with no bounds the velocity limit of the point
\* is taken instead of 0
BetaAt_InfeasibleAtLimit(cf, deltaq, lim, beta, k) ==
  LET s_dot_next == Min2(beta[k + 1], lim[k + 1])
      bounds     == getAccBounds(cf, deltaq, k + 1, s_dot_next)
      sd_sq_curr == Sub(FxMul(s_dot_next, s_dot_next), FxMul(bounds.min, 2 * ds))
  IN  IF ~bounds.ok THEN lim[k]
      ELSE Min2(FxSqrt(Max2(0, sd_sq_curr)), lim[k])

\* a faulty variant of BetaAt: the velocity is not clamped to the limit curve

BetaAt_NoClamp(cf, deltaq, lim, beta, k) ==
  LET s_dot_next == Min2(beta[k + 1], lim[k + 1])
      bounds     == getAccBounds(cf, deltaq, k + 1, s_dot_next)
      sd_sq_curr == Sub(FxMul(s_dot_next, s_dot_next), FxMul(bounds.min, 2 * ds))
  IN  IF ~bounds.ok THEN 0
      ELSE FxSqrt(Max2(0, sd_sq_curr))

\* step 4, one iteration: beta_curve[k] from beta_curve[k+1]
BetaAt(cf, deltaq, lim, beta, k) ==
  LET s_dot_next == Min2(beta[k + 1], lim[k + 1])
      bounds     == getAccBounds(cf, deltaq, k + 1, s_dot_next)
      sd_sq_curr == Sub(FxMul(s_dot_next, s_dot_next), FxMul(bounds.min, 2 * ds))
  IN  IF ~bounds.ok THEN 0
      ELSE Min2(FxSqrt(Max2(0, sd_sq_curr)), lim[k])

\* step 4: the backward pass, from beta_curve[N_GRID] = 0, for k = N_GRID-1
\* down to 0 (iteration n of the loop handles k = N_GRID - n)
BackwardPass(cf, deltaq, lim) ==
  LET Body(n, beta) ==
        [beta EXCEPT ![N_GRID - n] = BetaAt(cf, deltaq, lim, beta, N_GRID - n)]
  IN  Loop(Body, 1, N_GRID, [k \in 0..N_GRID |-> 0])

\* a faulty variant of RawAccAt: the greedy acceleration is not checked against
\* the backward curve
RawAccAt_Unclipped(cf, deltaq, beta, k, s_dot_curr) ==
  LET bounds == getAccBounds(cf, deltaq, k, s_dot_curr)
  IN  IF ~bounds.ok THEN 0 ELSE bounds.max

\* step 5, one iteration: the raw acceleration of segment k at velocity s_dot_curr

RawAccAt(cf, deltaq, beta, k, s_dot_curr) ==
  LET bounds       == getAccBounds(cf, deltaq, k, s_dot_curr)
      max_next_sq  == FxMul(beta[k + 1], beta[k + 1])
      cur_sq       == FxMul(s_dot_curr, s_dot_curr)
      projected_sq == Add(cur_sq, FxMul(bounds.max, 2 * ds))
  IN  IF ~bounds.ok THEN 0
      ELSE IF projected_sq > max_next_sq
           THEN FxDiv(Sub(max_next_sq, cur_sq), 2 * ds)
           ELSE bounds.max

\* the velocity after one segment at acceleration s_ddot
NextSd(s_dot_curr, s_ddot) ==
  FxSqrt(Max2(0, Add(FxMul(s_dot_curr, s_dot_curr), FxMul(s_ddot, 2 * ds))))

\* step 5: the forward pass, from s_dot_curr = 0; the loop state is the
\* array raw_s_ddot and s_dot_curr
ForwardPass(cf, deltaq, beta) ==
  LET Body(k, st) ==
        LET s_ddot == RawAccAt(cf, deltaq, beta, k, st.s_dot_curr)
        IN  [raw        |-> [st.raw EXCEPT ![k] = s_ddot],
             s_dot_curr |-> NextSd(st.s_dot_curr, s_ddot)]
  IN  Loop(Body, 0, N_GRID - 1,
           [raw |-> [k \in 0..(N_GRID - 1) |-> 0], s_dot_curr |-> 0]).raw

\* the indices of the window around k that lie inside the array
Window(k) == {idx \in (k - windowSize)..(k + windowSize) : idx >= 0 /\ idx < N_GRID}

RECURSIVE SumOver(_, _, _)
\* the sum of f(raw[idx]) for idx from lo to hi
SumOver(f(_), lo, hi) == IF lo > hi THEN 0 ELSE f(lo) + SumOver(f, lo + 1, hi)

\* sum / count over the window: the quotients and the remainders of the
\* terms are summed apart, so that the sum stays in range
WindowAverage(raw, k) ==
  LET lo    == Max2(0, k - windowSize)
      hi    == Min2(N_GRID - 1, k + windowSize)
      count == hi - lo + 1
      Q(idx) == raw[idx] \div count
      R(idx) == raw[idx] % count
  IN  SumOver(Q, lo, hi) + (SumOver(R, lo, hi) \div count)

\* a faulty variant of SmoothAt: the window collapses to the sample itself
SmoothAt_NoWindow(raw, k) ==
  IF Abs(raw[k]) < SCALE \div 2 THEN 0 ELSE raw[k]

\* step 6, one entry: the moving average with the 0.5 deadband
SmoothAt(raw, k) ==
  LET avg == WindowAverage(raw, k)
  IN  IF Abs(avg) < SCALE \div 2 THEN 0 ELSE avg

\* step 6: the smoothing pass
SmoothingPass(raw) == [k \in 0..(N_GRID - 1) |-> SmoothAt(raw, k)]

\* a faulty variant of TimeStep: no fixed step at standstill
TimeStep_NoFixedStep(s_dot_curr, s_dot_next) ==
  LET v_avg == (s_dot_curr + s_dot_next) \div 2
      dt    == FxDiv(ds, v_avg)
  IN  Max2(FxMul(dt, PLAYBACK_SPEED_FACTOR), 10)

\* step 7: the time step of one segment

TimeStep(s_dot_curr, s_dot_next) ==
  LET v_avg == (s_dot_curr + s_dot_next) \div 2
      dt    == IF v_avg > 10 THEN FxDiv(ds, v_avg) ELSE 1000
  IN  Max2(FxMul(dt, PLAYBACK_SPEED_FACTOR), 10)

\* a faulty variant of FrameJoints: the frame after segment k is placed at grid
\* point k instead of k + 1
FrameJoints_OffByOne(startq, deltaq, k, s_dot_next, s_ddot) ==
  LET s_next == FxDiv(k * SCALE, N_GRID * SCALE)
  IN  [i \in 1..Len(startq) |->
        JointState(startq[i] + FxMul(s_next, deltaq[i]),
                   FxMul(s_dot_next, deltaq[i]),
                   FxMul(s_ddot, deltaq[i]), 0)]

\* a faulty variant of FrameJoints: the path rates are not scaled by deltaq
FrameJoints_PathRates(startq, deltaq, k, s_dot_next, s_ddot) ==
  LET s_next == FxDiv((k + 1) * SCALE, N_GRID * SCALE)
  IN  [i \in 1..Len(startq) |->
        JointState(startq[i] + FxMul(s_next, deltaq[i]), s_dot_next, s_ddot, 0)]

\* step 7: the joint states of the frame after segment k

FrameJoints(startq, deltaq, k, s_dot_next, s_ddot) ==
  LET s_next == FxDiv((k + 1) * SCALE, N_GRID * SCALE)
  IN  [i \in 1..Len(startq) |->
        JointState(startq[i] + FxMul(s_next, deltaq[i]),
                   FxMul(s_dot_next, deltaq[i]),
                   FxMul(s_ddot, deltaq[i]), 0)]

\* a faulty variant of IntegrateStep: the frame carries the time step of its
\* segment instead of the accumulated time
IntegrateStep_TimeNotAccumulated(startq, deltaq, smooth, k, st) ==
  LET s_ddot     == smooth[k]
      s_dot_next == NextSd(st.s_dot_curr, s_ddot)
      t_next     == TimeStep(st.s_dot_curr, s_dot_next)
  IN  [points     |-> Append(st.points,
                             Frame(FrameJoints(startq, deltaq, k, s_dot_next, s_ddot),
                                   t_next)),
       t_curr     |-> t_next,
       s_dot_curr |-> s_dot_next]

\* step 7, one iteration: the frame after segment k is appended, time and
\* velocity advance
IntegrateStep(startq, deltaq, smooth, k, st) ==
  LET s_ddot     == smooth[k]
      s_dot_next == NextSd(st.s_dot_curr, s_ddot)
      t_next     == st.t_curr + TimeStep(st.s_dot_curr, s_dot_next)
  IN  [points     |-> Append(st.points,
                             Frame(FrameJoints(startq, deltaq, k, s_dot_next, s_ddot),
                                   t_next)),
       t_curr     |-> t_next,
       s_dot_curr |-> s_dot_next]

\* step 7: the start frame followed by one frame per segment
FinalIntegration(startq, deltaq, smooth) ==
  LET Body(k, st) == IntegrateStep(startq, deltaq, smooth, k, st)
      startFrame  == Frame([i \in 1..Len(startq) |-> JointState(startq[i], 0, 0, 0)], 0)
      end         == Loop(Body, 0, N_GRID - 1,
                          [points |-> <<startFrame>>, t_curr |-> 0, s_dot_curr |-> 0])
  IN  Returned(end.points, end.t_curr)

Angles(joints) == [i \in 1..Len(joints) |-> joints[i].angle]

\* the try block up to the zero-movement check
IsDegenerate(startJ, endJ) == Dist(Deltaq(startJ, endJ)) < 100

\* the catch block: whatever was thrown, return the linear fallback
CatchFallback(attempt, startJ, endJ) ==
  IF attempt.kind = "throw" THEN generateLinearFallback(startJ, endJ)
  ELSE attempt

(* ---------------------------------------------------------------------- *)
(* App.tsx: the playback controller.  Times of Date.now() are in           *)
(* milliseconds, elapsed times in units of 1e-5 s.                         *)
(* ---------------------------------------------------------------------- *)
MODE_MANUAL == "MANUAL"

MODE_AUTO_SINE == "AUTO_SINE"

MODE_TOPPRA == "TOPPRA"

MODES == {MODE_MANUAL, MODE_AUTO_SINE, MODE_TOPPRA}

INITIAL_JOINTS == [i \in JOINTS |-> JointState(0, 0, 0, 0)]

\* dwell time between TOPP-RA moves: 0.5 s
DWELL_TIME == 50000

\* [min, max] per joint, in units of 1e-5 rad
SAFE_LIMITS ==
  << <<-200000, 200000>>, <<-100000, 100000>>, <<-100000, 50000>>,
     <<-200000, 200000>>, <<-150000, 150000>>, <<-300000, 300000>> >>

\* one millisecond in units of 1e-5 s
MS == SCALE \div 1000

\* the state of the component after mounting
ControllerMounted ==
  /\ now = 0
  /\ mode = MODE_MANUAL
  /\ isPlaying = FALSE
  /\ isPlayingRef = FALSE
  /\ time = 0
  /\ isDwelling = FALSE
  /\ jointsRef = INITIAL_JOINTS
  /\ startTimeRef = 0
  /\ requestRef = FALSE
  /\ trajectoryRef = <<>>
  /\ trajStartElapsedRef = 0
  /\ dwellStartTimeRef = <<>>
  /\ caller = "none"
  /\ clicks = 0

(* ---------------------------------------------------------------------- *)
(* generateTimeOptimalTrajectory, pass by pass                             *)
(* ---------------------------------------------------------------------- *)
\* a configuration at rest
AtRest(q) == [i \in 1..Len(q) |-> JointState(q[i], 0, 0, 0)]

\* the calls examined: <<start angles, end angles>> in units of 1e-5 rad
PlannerInputs ==
  << <<<<0, 0, 0, 0, 0, 0>>, <<157080, 0, 0, 0, 0, 0>>>>,
     <<<<0, 0, 0, 0, 0, 0>>, <<0, 0, 0, 0, 0, 100000>>>>,
     <<<<0, 0, 0, 0, 0, 0>>, <<0, 0, 0, 0, 0, 0>>>>,
     <<<<-146000, 69000, 15000, -98000, -1000, -30000>>,
       <<61000, 58000, -86000, -189000, 101000, -40000>>>>,
     <<<<50000, -20000, 30000, 0, 10000, 0>>, <<50030, -20000, 30040, 0, 10000, 0>>>>,
     <<<<0, 0, 0, 0, 0, 0>>, <<0, 0, 0, 0, 0>>>>,
     <<<<105000, -100000, -33000, 89000, -81000, 267000>>,
       <<161000, -94000, -96000, 17000, 132000, -71000>>>>,
     <<<<0, 0, 0, 0, 0, 0>>, <<0, 100000, 0, 0, 0, 0>>>>,
     <<<<100000, 50000, -50000, 100000, 50000, 100000>>,
       <<100000, 50000, -50000, 100000, 50000, -100000>>>>,
     <<<<200000, 100000, 50000, 200000, 150000, 300000>>,
       <<-200000, -100000, -100000, -200000, -150000, -300000>>>>,
     <<<<0, 0, 0, 0, 0, 0>>, <<-5000, 0, 0, 0, 0, 0>>>>,
     <<<<-131000, 10000, 5000, 70000, -38000, -37000>>,
       <<3000, 56000, -22000, -43000, -3000, -282000>>>>,
     <<<<0, -100000, 50000, 0, 0, 0>>, <<0, 100000, -100000, 0, 0, 0>>>>,
     <<<<0, 0, 0, 0, 0, 0>>, <<0, 0, 0, 50000, -150000, 0>>>>,
     <<<<135000, 11000, -4000, -126000, 148000, 216000>>,
       <<-152000, -33000, 8000, 84000, 131000, -47000>>>>,
     <<<<0, 0, 0, 0, 0, 0>>, <<0, 0, -100000, 0, 0, 200000>>>>,
     <<<<-119600, -72600, 35500, 181600, -55900, -225300>>,
       <<18400, 12100, -50300, 183100, 36200, 121800>>>>,
     <<<<0, 0, 0, 0, 0, 0>>, <<500, 0, 0, 0, 0, 0>>>>,
     <<<<6000, 90000, -13000, -16000, -69000, 29000>>,
       <<183000, -99000, 18000, 128000, 116000, 144000>>>>,
     <<<<0, 0, 0, 0, 0, 0>>, <<200000, 0, 0, -200000, 0, 0>>>> >>

\* how many of the calls above are examined
NumInputs == 18

PlannerInit ==
  /\ \E n \in 1..NumInputs :
       /\ startJoints = AtRest(PlannerInputs[n][1])
       /\ endJoints = AtRest(PlannerInputs[n][2])
  /\ pc = "call"
  /\ coeffs = <<>>
  /\ s_dot_limit = <<>>
  /\ beta_curve = <<>>
  /\ raw_s_ddot = <<>>
  /\ smooth_s_ddot = <<>>
  /\ result = <<>>
  /\ ControllerMounted

\* lines 46-52: the zero-movement check; a degenerate move returns the linear
\* fallback at once, and an exception is handled by the catch block
PathSetup ==
  /\ pc = "call"
  /\ IF IsDegenerate(startJoints, endJoints)
     THEN /\ result' = CatchFallback(generateLinearFallback(startJoints, endJoints),
                                     startJoints, endJoints)
          /\ pc' = "done"
     ELSE /\ result' = result
          /\ pc' = "coeffs"
  /\ UNCHANGED <<startJoints, endJoints, coeffs, s_dot_limit, beta_curve, raw_s_ddot,
                 smooth_s_ddot>>
  /\ UNCHANGED ctrlVars

\* lines 54-82
CoefficientPass ==
  /\ pc = "coeffs"
  /\ coeffs' = ComputeCoefficients(Angles(startJoints), Deltaq(startJoints, endJoints))
  /\ pc' = "mvc"
  /\ UNCHANGED <<startJoints, endJoints, s_dot_limit, beta_curve, raw_s_ddot,
                 smooth_s_ddot, result>>
  /\ UNCHANGED ctrlVars

\* lines 84-110
MVCPass ==
  /\ pc = "mvc"
  /\ s_dot_limit' = ComputeMVC(coeffs)
  /\ pc' = "backward"
  /\ UNCHANGED <<startJoints, endJoints, coeffs, beta_curve, raw_s_ddot,
                 smooth_s_ddot, result>>
  /\ UNCHANGED ctrlVars

\* lines 151-167
BackwardStep ==
  /\ pc = "backward"
  /\ beta_curve' = BackwardPass(coeffs, Deltaq(startJoints, endJoints), s_dot_limit)
  /\ pc' = "forward"
  /\ UNCHANGED <<startJoints, endJoints, coeffs, s_dot_limit, raw_s_ddot,
                 smooth_s_ddot, result>>
  /\ UNCHANGED ctrlVars

\* lines 169-195
ForwardStep ==
  /\ pc = "forward"
  /\ raw_s_ddot' = ForwardPass(coeffs, Deltaq(startJoints, endJoints), beta_curve)
  /\ pc' = "smooth"
  /\ UNCHANGED <<startJoints, endJoints, coeffs, s_dot_limit, beta_curve,
                 smooth_s_ddot, result>>
  /\ UNCHANGED ctrlVars

\* lines 197-219
SmoothingStep ==
  /\ pc = "smooth"
  /\ smooth_s_ddot' = SmoothingPass(raw_s_ddot)
  /\ pc' = "integrate"
  /\ UNCHANGED <<startJoints, endJoints, coeffs, s_dot_limit, beta_curve,
                 raw_s_ddot, result>>
  /\ UNCHANGED ctrlVars

\* lines 222-270
IntegrationStep ==
  /\ pc = "integrate"
  /\ result' = FinalIntegration(Angles(startJoints), Deltaq(startJoints, endJoints),
                                smooth_s_ddot)
  /\ pc' = "done"
  /\ UNCHANGED <<startJoints, endJoints, coeffs, s_dot_limit, beta_curve,
                 raw_s_ddot, smooth_s_ddot>>
  /\ UNCHANGED ctrlVars

PlannerNext ==
  \/ PathSetup
  \/ CoefficientPass
  \/ MVCPass
  \/ BackwardStep
  \/ ForwardStep
  \/ SmoothingStep
  \/ IntegrationStep

PlannerSpec == PlannerInit /\ [][PlannerNext]_vars

(* ---------------------------------------------------------------------- *)
(* App.tsx: the handlers, the effects and the animation loop               *)
(* ---------------------------------------------------------------------- *)
\* Math.sin and Math.cos for any argument: reduction to (-PI, PI]
Reduce(x) ==
  LET r == x % (2 * PI)
  IN  IF r > PI THEN r - 2 * PI ELSE r

FxCosAny(x) == FxCos(Reduce(x))

FxSin(x) == FxCos(Reduce(x) - PI \div 2)

freqs == <<10000, 5000, 8000, 15000, 12000, 20000>>

amps == <<150000, 50000, 80000, 150000, 100000, 200000>>

phases == <<0, 50000, 100000, 0, 50000, 0>>

\* generateTrajectory(time) of services/dynamics.ts: the sine motion
generateTrajectory(t) ==
  [i \in JOINTS |->
    LET omega == FxMul(2 * PI, freqs[i])
        arg   == FxMul(omega, t) + phases[i]
    IN  JointState(FxMul(amps[i], FxSin(arg)),
                   FxMul(FxMul(amps[i], omega), FxCosAny(arg)),
                   -FxMul(FxMul(amps[i], FxMul(omega, omega)), FxSin(arg)),
                   0)]

\* the values of Math.random() drawn for the six joints of one candidate, in
\* units of 1e-5: each is at least 0 and below 1
Draws1 == <<87500, 75000, 99999, 75000, 70000, 70000>>

Draws2 == <<0, 50000, 66667, 50000, 50000, 50000>>

Draws3 == <<25000, 25000, 80000, 25000, 20000, 15000>>

MAX_ATTEMPTS == 15

\* the draws of Math.random() in one call of planNextToppraMove: those of
\* attempt n are stream[n]
RandomStreams ==
  { [n \in 1..MAX_ATTEMPTS |-> Draws1],
    [n \in 1..MAX_ATTEMPTS |-> IF n % 2 = 1 THEN Draws2 ELSE Draws3] }

\* lines 78-91, the candidate of one attempt: {...j, angle: randomAngle,
\* velocity: 0, acceleration: 0, torque: 0} with
\* randomAngle = min + Math.random() * range
Candidate(current, draws) ==
  [i \in 1..Len(current) |->
    LET min   == SAFE_LIMITS[i][1]
        max   == SAFE_LIMITS[i][2]
        range == max - min
    IN  JointState(min + FxMul(draws[i], range), 0, 0, 0)]

\* line 94: the Euclidean distance in joint space
CandidateDist(current, target) == Dist(Deltaq(current, target))

\* a faulty variant of Attempts: a candidate exactly 2.0 rad away is rejected
Attempts_StrictlyFarther(current, stream) ==
  LET far == {n \in 1..MAX_ATTEMPTS :
                CandidateDist(current, Candidate(current, stream[n])) > 2 * SCALE}
  IN  IF far = {} THEN MAX_ATTEMPTS ELSE CHOOSE n \in far : \A m \in far : n <= m

\* the number of attempts the while loop of line 77 makes: it goes on while
\* dist < 2.0 and attempts < 15, so it stops at the first candidate at least
\* 2.0 rad away, or after 15 attempts
Attempts(current, stream) ==
  LET far == {n \in 1..MAX_ATTEMPTS :
                CandidateDist(current, Candidate(current, stream[n])) >= 2 * SCALE}
  IN  IF far = {} THEN MAX_ATTEMPTS ELSE CHOOSE n \in far : \A m \in far : n <= m

\* the target the while loop leaves
SampleTarget(current, stream) == Candidate(current, stream[Attempts(current, stream)])

\* a faulty variant of planNextToppraMove: the move is planned from the
\* initial configuration
planNextToppraMove_FromInitial(stream, who) ==
  /\ pc' = "call"
  /\ startJoints' = INITIAL_JOINTS
  /\ \E target \in {SampleTarget(jointsRef, stream)} : endJoints' = target
  /\ coeffs' = <<>>
  /\ s_dot_limit' = <<>>
  /\ beta_curve' = <<>>
  /\ raw_s_ddot' = <<>>
  /\ smooth_s_ddot' = <<>>
  /\ result' = <<>>
  /\ caller' = who

\* planNextToppraMove, up to its call of generateTimeOptimalTrajectory: the

\* planner starts on the current joints and the sampled target; the handler
\* who waits for the trajectory
planNextToppraMove(stream, who) ==
  /\ pc' = "call"
  /\ startJoints' = jointsRef
  /\ \E target \in {SampleTarget(jointsRef, stream)} : endJoints' = target
  /\ coeffs' = <<>>
  /\ s_dot_limit' = <<>>
  /\ beta_curve' = <<>>
  /\ raw_s_ddot' = <<>>
  /\ smooth_s_ddot' = <<>>
  /\ result' = <<>>
  /\ caller' = who

\* no handler runs while another one is in the planner
Idle == pc \in {"idle", "done"} /\ caller = "none"

\* a faulty variant of FindIndex: the last matching frame instead of the first
FindIndex_LastHit(traj, moveTime) ==
  LET hits == {n \in 1..Len(traj) : traj[n].time >= moveTime}
  IN  IF hits = {} THEN 0 ELSE CHOOSE n \in hits : \A m \in hits : n >= m

\* traj.findIndex(frame => frame.time >= moveTime), counted from 1; 0 for -1
FindIndex(traj, moveTime) ==
  LET hits == {n \in 1..Len(traj) : traj[n].time >= moveTime}
  IN  IF hits = {} THEN 0 ELSE CHOOSE n \in hits : \A m \in hits : n <= m

\* a faulty variant of MovingStep: the dwell start is recorded on every tick
MovingStep_DwellAlways(traj, moveTime, nowv) ==
  LET frameIndex == FindIndex(traj, moveTime)
  IN  IF frameIndex # 0
      THEN [newJoints |-> traj[frameIndex].joints, dwellStartTimeRef |-> <<nowv>>]
      ELSE [newJoints |-> traj[Len(traj)].joints, dwellStartTimeRef |-> <<nowv>>]

\* a faulty variant of MovingStep: past the end the last frame is shown and no
\* dwell is started
MovingStep_NoDwell(traj, moveTime, nowv) ==
  LET frameIndex == FindIndex(traj, moveTime)
  IN  IF frameIndex # 0
      THEN [newJoints |-> traj[frameIndex].joints, dwellStartTimeRef |-> <<>>]
      ELSE [newJoints |-> traj[Len(traj)].joints, dwellStartTimeRef |-> <<>>]

\* lines 161-172: the frame for moveTime, or past the end the last frame and
\* the start of the dwell
MovingStep(traj, moveTime, nowv) ==
  LET frameIndex == FindIndex(traj, moveTime)
  IN  IF frameIndex # 0
      THEN [newJoints |-> traj[frameIndex].joints, dwellStartTimeRef |-> <<>>]
      ELSE [newJoints |-> traj[Len(traj)].joints, dwellStartTimeRef |-> <<nowv>>]

\* a faulty variant of Held: the acceleration is kept
Held_AccelerationKept(joints) ==
  [i \in 1..Len(joints) |-> [joints[i] EXCEPT !.velocity = 0]]

\* j => ({...j, velocity: 0, acceleration: 0})
Held(joints) ==
  [i \in 1..Len(joints) |-> [joints[i] EXCEPT !.velocity = 0, !.acceleration = 0]]

\* a faulty variant of AttachTorque: the friction torque is left out
AttachTorque_FrictionOmitted(newJoints) ==
  LET dynamicsTorques == calculateInverseDynamics(newJoints, ROBOT_PARAMS)
  IN  [i \in JOINTS |-> [newJoints[i] EXCEPT !.torque = dynamicsTorques[i]]]

\* lines 181-190: the physics update
AttachTorque(newJoints) ==
  LET dynamicsTorques == calculateInverseDynamics(newJoints, ROBOT_PARAMS)
  IN  [i \in JOINTS |->
        [newJoints[i] EXCEPT
           !.torque = Add(dynamicsTorques[i],
                          calculateJointFriction(i, newJoints[i].velocity))]]

\* a faulty variant of SamplesAfterUpdate: the torque is written into the
\* sample shown instead of a copy of it
SamplesAfterUpdate_InPlace(traj, moveTime) ==
  LET frameIndex == FindIndex(traj, moveTime)
      n == IF frameIndex # 0 THEN frameIndex ELSE Len(traj)
  IN  [traj EXCEPT ![n].joints = AttachTorque(traj[n].joints)]

\* lines 166-169 and 186-191: newJoints is the sample traj[frameIndex] itself,
\* and jointsWithTorque = newJoints.map(j => ({...j, torque})) builds new
\* objects, so the samples of the trajectory are as before
SamplesAfterUpdate(traj, moveTime) == traj

\* elapsed = (now - startTimeRef.current) / 1000
Elapsed(nowv) == (nowv - startTimeRef) * MS

\* a faulty variant of Anchor: the anchor marked for reset is used as it is
Anchor_NotReset(elapsed) == trajStartElapsedRef

\* lines 137-139: the move-start anchor after its reset

Anchor(elapsed) == IF trajStartElapsedRef < 0 THEN elapsed ELSE trajStartElapsedRef

\* the clock at the end of the runs examined, in milliseconds
MaxNow == 2000

\* the time between two animation frames, in milliseconds
TickSteps == {100}

\* how long the clock may run with no frame pending, in milliseconds
WaitSteps == {650}

\* how many times the user clicks
MaxClicks == 4

\* the moments, in milliseconds, at which the user may click
ClickMoments == {0, 300, 950}

Init ==
  /\ ControllerMounted
  /\ pc = "idle"
  /\ startJoints = <<>>
  /\ endJoints = <<>>
  /\ coeffs = <<>>
  /\ s_dot_limit = <<>>
  /\ beta_curve = <<>>
  /\ raw_s_ddot = <<>>
  /\ smooth_s_ddot = <<>>
  /\ result = <<>>

UserActs ==
  /\ Idle
  /\ clicks < MaxClicks
  /\ now \in ClickMoments
  /\ clicks' = clicks + 1

\* a faulty variant of PlayOn: the start time is left as it was
PlayOn_ClockNotSetBack ==
  /\ isPlayingRef' = TRUE
  /\ startTimeRef' = startTimeRef
  /\ requestRef' = TRUE

\* the isPlaying effects (lines 54-65 and 222-225) when playback turns on:

\* the start time is set back by the time shown and a frame is requested
PlayOn ==
  /\ isPlayingRef' = TRUE
  /\ startTimeRef' = now - time \div MS
  /\ requestRef' = TRUE

\* a click on a mode button (handleModeChange) and the mode effect, lines
\* 108-119, followed by the isPlaying effects; a click on the button of the
\* current mode changes nothing.  In TOPPRA mode the effect plans: its writes
\* to the three refs of the move follow when the planner has returned
ClickMode ==
  \E m \in MODES \ {mode} :
    /\ UserActs
    /\ mode' = m
    /\ IF m = MODE_TOPPRA
       THEN /\ \E stream \in RandomStreams : planNextToppraMove(stream, "modeEffect")
            /\ isPlaying' = TRUE
            /\ IF isPlaying
               THEN /\ startTimeRef' = now
                    /\ UNCHANGED <<isPlayingRef, requestRef>>
               ELSE PlayOn
       ELSE /\ UNCHANGED <<isPlaying, isPlayingRef, startTimeRef, requestRef, caller>>
            /\ UNCHANGED plannerVars
    /\ UNCHANGED <<now, time, isDwelling, jointsRef, trajectoryRef,
                   dwellStartTimeRef, trajStartElapsedRef>>

\* a click on the play/pause button, line 271, and the isPlaying effects
ClickPlay ==
  /\ UserActs
  /\ isPlaying' = ~isPlaying
  /\ IF ~isPlaying
     THEN PlayOn
     ELSE /\ isPlayingRef' = FALSE
          /\ requestRef' = FALSE
          /\ UNCHANGED startTimeRef
  /\ UNCHANGED <<now, mode, time, isDwelling, jointsRef, trajectoryRef,
                 trajStartElapsedRef, dwellStartTimeRef, caller>>
  /\ UNCHANGED plannerVars

\* a click on the reset button, line 279
ClickReset ==
  /\ UserActs
  /\ time' = 0
  /\ UNCHANGED <<now, mode, isPlaying, isPlayingRef, isDwelling, jointsRef,
                 startTimeRef, requestRef, trajectoryRef, trajStartElapsedRef,
                 dwellStartTimeRef, caller>>
  /\ UNCHANGED plannerVars

\* lines 181-215: the physics update, the new time and the next frame
Emit(newJoints, elapsed) ==
  /\ jointsRef' = AttachTorque(newJoints)
  /\ time' = elapsed
  /\ requestRef' = TRUE

\* lines 130-179: the joints the tick emits and, in the Moving state, the
\* dwell start it records
TickOutcome(nowv, elapsed) ==
  IF mode = MODE_AUTO_SINE
  THEN [newJoints |-> generateTrajectory(elapsed), dwellStartTimeRef |-> dwellStartTimeRef]
  ELSE IF mode = MODE_TOPPRA /\ dwellStartTimeRef = <<>>
  THEN MovingStep(trajectoryRef, elapsed - Anchor(elapsed), nowv)
  ELSE [newJoints |-> Held(jointsRef), dwellStartTimeRef |-> dwellStartTimeRef]

\* the writes of the TOPPRA branch of loopCallback, lines 134-174, at clock
\* nowv, on a tick that emits
ToppraTick(nowv, elapsed, step) ==
  IF dwellStartTimeRef # <<>>
  THEN \* dwelling: plan the next move once the dwell is over
       /\ isDwelling' = TRUE
       /\ IF (nowv - dwellStartTimeRef[1]) * MS > DWELL_TIME
          THEN /\ \E stream \in RandomStreams : planNextToppraMove(stream, "tick")
               /\ UNCHANGED <<trajectoryRef, dwellStartTimeRef, trajStartElapsedRef>>
          ELSE /\ trajStartElapsedRef' = Anchor(elapsed)
               /\ UNCHANGED <<trajectoryRef, dwellStartTimeRef, caller>>
               /\ UNCHANGED plannerVars
  ELSE \* moving
       /\ isDwelling' = FALSE
       /\ dwellStartTimeRef' = step.dwellStartTimeRef
       /\ trajStartElapsedRef' = Anchor(elapsed)
       /\ trajectoryRef' = SamplesAfterUpdate(trajectoryRef, elapsed - Anchor(elapsed))
       /\ UNCHANGED caller
       /\ UNCHANGED plannerVars

\* the TOPPRA branch with no trajectory, lines 150-153: plan and return, no
\* frame is requested
EmptyTrajectoryTick ==
  /\ \E stream \in RandomStreams : planNextToppraMove(stream, "tick")
  /\ isDwelling' = FALSE
  /\ requestRef' = FALSE
  /\ UNCHANGED <<jointsRef, time, trajectoryRef, dwellStartTimeRef, trajStartElapsedRef>>

\* the writes of the other branches of loopCallback, lines 130-133 and 175-179
OtherTick ==
  /\ isDwelling' = FALSE
  /\ UNCHANGED <<trajectoryRef, dwellStartTimeRef, trajStartElapsedRef, caller>>
  /\ UNCHANGED plannerVars

\* an animation frame: the clock has advanced by d and loopCallback runs
loopCallback ==
  \E d \in TickSteps :
    /\ Idle
    /\ requestRef
    /\ now + d <= MaxNow
    /\ now' = now + d
    /\ IF ~isPlayingRef
       THEN /\ requestRef' = FALSE
            /\ UNCHANGED <<time, isDwelling, jointsRef, trajectoryRef,
                           trajStartElapsedRef, dwellStartTimeRef, caller>>
            /\ UNCHANGED plannerVars
       ELSE IF mode = MODE_TOPPRA /\ dwellStartTimeRef = <<>> /\ Len(trajectoryRef) = 0
       THEN EmptyTrajectoryTick
       ELSE \E elapsed \in {Elapsed(now + d)} :
              \E step \in {TickOutcome(now + d, elapsed)} :
                /\ Emit(step.newJoints, elapsed)
                /\ IF mode = MODE_TOPPRA
                   THEN ToppraTick(now + d, elapsed, step)
                   ELSE OtherTick
    /\ UNCHANGED <<mode, isPlaying, isPlayingRef, startTimeRef, clicks>>

\* a faulty variant of PlanReturns: the trajectory handed over has no samples
PlanReturns_NoSamples ==
  /\ pc = "done"
  /\ caller # "none"
  /\ trajectoryRef' = <<>>
  /\ dwellStartTimeRef' = <<>>
  /\ trajStartElapsedRef' = IF caller = "modeEffect" THEN 0 ELSE -SCALE
  /\ caller' = "none"
  /\ UNCHANGED <<now, mode, isPlaying, isPlayingRef, time, isDwelling, jointsRef,
                 startTimeRef, requestRef, clicks>>
  /\ pc' = "idle"
  /\ startJoints' = <<>>
  /\ endJoints' = <<>>
  /\ coeffs' = <<>>
  /\ s_dot_limit' = <<>>
  /\ beta_curve' = <<>>
  /\ raw_s_ddot' = <<>>
  /\ smooth_s_ddot' = <<>>
  /\ result' = <<>>

\* generateTimeOptimalTrajectory has returned to planNextToppraMove, lines

\* 97-101; the mode effect then sets the anchor to 0, line 116
PlanReturns ==
  /\ pc = "done"
  /\ caller # "none"
  /\ trajectoryRef' = result.points
  /\ dwellStartTimeRef' = <<>>
  /\ trajStartElapsedRef' = IF caller = "modeEffect" THEN 0 ELSE -SCALE
  /\ caller' = "none"
  /\ UNCHANGED <<now, mode, isPlaying, isPlayingRef, time, isDwelling, jointsRef,
                 startTimeRef, requestRef, clicks>>
  \* the arguments and locals of the call are gone
  /\ pc' = "idle"
  /\ startJoints' = <<>>
  /\ endJoints' = <<>>
  /\ coeffs' = <<>>
  /\ s_dot_limit' = <<>>
  /\ beta_curve' = <<>>
  /\ raw_s_ddot' = <<>>
  /\ smooth_s_ddot' = <<>>
  /\ result' = <<>>

\* the clock advances while no frame is pending
Wait ==
  \E d \in WaitSteps :
    /\ Idle
    /\ ~requestRef
    /\ now + d <= MaxNow
    /\ now' = now + d
    /\ UNCHANGED <<mode, isPlaying, isPlayingRef, time, isDwelling, jointsRef,
                   startTimeRef, requestRef, trajectoryRef, trajStartElapsedRef,
                   dwellStartTimeRef, caller, clicks>>
    /\ UNCHANGED plannerVars

Next ==
  \/ ClickMode
  \/ ClickPlay
  \/ ClickReset
  \/ loopCallback
  \/ PlanReturns
  \/ Wait
  \/ PlannerNext

Spec == Init /\ [][Next]_vars

(* ---------------------------------------------------------------------- *)
(* Properties of the planner                                               *)
(* ---------------------------------------------------------------------- *)
\* the call has returned (or thrown)
Done == pc = "done"

\* both arguments are 6-joint configurations
ValidCall == Len(startJoints) = 6 /\ Len(endJoints) = 6

\* the move is below the 0.001 rad threshold
DegenerateCall == IsDegenerate(startJoints, endJoints)

\* the call went through all passes and returned the solved trajectory
Solved == Done /\ smooth_s_ddot # <<>>

LastFrame == result.points[Len(result.points)]

\* C1: for valid 6-joint arguments the returned trajectory (solved or linear
\* fallback) starts with a sample at time 0 whose angles are the start
\* angles, and every later timestamp is strictly greater than the one before.
C1_TimestampsIncrease ==
  (Done /\ ValidCall) =>
    /\ result.kind = "ok"
    /\ Len(result.points) >= 1
    /\ result.points[1].time = 0
    /\ \A i \in JOINTS : result.points[1].joints[i].angle = startJoints[i].angle
    /\ \A n \in 2..Len(result.points) :
         result.points[n].time > result.points[n - 1].time

\* a solved trajectory whose time steps are not all the same
C1_Witness ==
  /\ Solved /\ ValidCall
  /\ Len(result.points) = N_GRID + 1
  /\ result.points[3].time - result.points[2].time
       # result.points[2].time - result.points[1].time

C3_DegenerateIsFallback ==
  (Done /\ ValidCall /\ DegenerateCall) =>
    /\ result.kind = "ok"
    /\ Len(result.points) = 61
    /\ result.duration = 3 * SCALE
    /\ \A n \in 1..61 :
         /\ Abs(result.points[n].time - ((n - 1) * 3 * SCALE) \div 60) <= 3
         /\ \A i \in JOINTS :
              LET j    == result.points[n].joints[i]
                  span == endJoints[i].angle - startJoints[i].angle
              IN  /\ Abs(60 * (j.angle - startJoints[i].angle) - (n - 1) * span) <= 60
                  /\ j.velocity = 0
                  /\ j.acceleration = 0
                  /\ j.torque = 0

\* a short move with start # end has returned
C3_Witness ==
  /\ Done /\ ValidCall /\ DegenerateCall
  /\ \E i \in JOINTS : endJoints[i].angle # startJoints[i].angle
  /\ result.kind = "ok"
  /\ \E i \in JOINTS :
       result.points[31].joints[i].angle \notin
         {startJoints[i].angle, endJoints[i].angle}

\* C4: for a move of 0.001 rad or more the last sample's angles equal the end
\* angles to within 1e-3 rad (100 units), on every joint.
C4_EndsAtTarget ==
  (Done /\ ValidCall /\ ~DegenerateCall) =>
    \A i \in JOINTS : Abs(LastFrame.joints[i].angle - endJoints[i].angle) <= 100

\* a solved move that changes some joint by more than 1 rad
C4_Witness ==
  /\ Solved /\ ValidCall
  /\ \E i \in JOINTS : Abs(endJoints[i].angle - startJoints[i].angle) > SCALE

\* C5: for a move of 0.001 rad or more the last sample is at rest: every joint
\* velocity of the final sample is 0 to within 0.01 rad/s (1000 units).
C5_EndsAtRest ==
  (Done /\ ValidCall /\ ~DegenerateCall) =>
    \A i \in JOINTS : Abs(LastFrame.joints[i].velocity) <= 1000

\* the path velocities s_dot at the grid points 0..N_GRID, re-integrated from
\* an acceleration profile as step 7 does
PathVelocities(profile) ==
  LET Body(k, sd) == [sd EXCEPT ![k + 1] = NextSd(sd[k], profile[k])]
  IN  Loop(Body, 0, N_GRID - 1, [k \in 0..N_GRID |-> 0])

\* the torque of joint i at grid point k projected from path acceleration sdd
\* and path velocity sd
ProjectedTorque(cf, deltaq, k, i, sdd, sd) ==
  Add(Add(Add(FxMul(cf[k].A[i], sdd), FxMul(cf[k].B[i], FxMul(sd, sd))), cf[k].C[i]),
      calculateJointFriction(i, FxMul(sd, deltaq[i])))

\* C6: at every interior sample of a solved trajectory the projected torque
\* A*sdd + B*sd^2 + C + friction, from the sample's smoothed acceleration and
\* its path velocity, stays within the torque limit of every joint, up to a
\* tolerance of 1 % of the limit.
C6_TorqueFeasible ==
  (Solved /\ ValidCall) =>
    LET deltaq == Deltaq(startJoints, endJoints)
        sd     == PathVelocities(smooth_s_ddot)
    IN  \A k \in 1..(N_GRID - 1) : \A i \in JOINTS :
          Abs(ProjectedTorque(coeffs, deltaq, k, i, smooth_s_ddot[k - 1], sd[k]))
            <= MAX_TORQUES[i] + MAX_TORQUES[i] \div 100

\* the largest magnitude of the raw profile
RawExtremum == 
  LET Body(k, m) == Max2(m, Abs(raw_s_ddot[k]))
  IN  Loop(Body, 0, N_GRID - 1, 0)

\* C8: after the moving average and the deadband no two adjacent samples of
\* the smoothed profile differ by more than the extremum of the raw profile.
C8_SmoothingBound ==
  (pc \in {"integrate", "done"} /\ smooth_s_ddot # <<>>) =>
    \A k \in 0..(N_GRID - 2) :
      Abs(smooth_s_ddot[k + 1] - smooth_s_ddot[k]) <= RawExtremum

\* a smoothed profile of a raw profile that changes sign (acceleration, then
\* deceleration) and in which the deadband zeroed an entry next to a live one
C8_Witness ==
  /\ pc = "integrate"
  /\ \E k \in 0..(N_GRID - 1) : raw_s_ddot[k] > 0
  /\ \E k \in 0..(N_GRID - 1) : raw_s_ddot[k] < 0
  /\ \E k \in 0..(N_GRID - 2) : smooth_s_ddot[k] # 0 /\ smooth_s_ddot[k + 1] = 0

\* C9: a joint whose end angle equals its start angle keeps that angle in
\* every sample of the returned trajectory.
C9_UnmovedJointsStay ==
  (Done /\ ValidCall) =>
    \A i \in JOINTS :
      endJoints[i].angle = startJoints[i].angle =>
        \A n \in 1..Len(result.points) :
          result.points[n].joints[i].angle = startJoints[i].angle

\* a solved base-only rotation from a configuration: joint 1 moves, the five
\* others have equal start and end angles
C9_Witness ==
  /\ Solved /\ ValidCall
  /\ endJoints[1].angle # startJoints[1].angle
  /\ \A i \in 2..6 : endJoints[i].angle = startJoints[i].angle
  /\ LastFrame.joints[1].angle # startJoints[1].angle

\* the path velocities and accelerations <<sd, sdd>>, sd >= 0, at which the
\* coefficient projection is compared with the inverse dynamics
ProbeRates == {<<0, 0>>, <<150000, 0>>, <<0, -200000>>, <<70000, 250000>>}

\* x * deltaq
ScaleVec(x, deltaq) == [i \in JOINTS |-> FxMul(x, deltaq[i])]

\* the coefficients have just been computed
CoefficientsReady == pc = "mvc" /\ ValidCall

\* the inverse dynamics at grid point k, velocity sd * deltaq and acceleration
\* sdd * deltaq
TorqueOnPath(k, sd, sdd) ==
  calculateInverseDynamics(
    ProbeState(Angles(startJoints), Deltaq(startJoints, endJoints), k,
               ScaleVec(sd, Deltaq(startJoints, endJoints)),
               ScaleVec(sdd, Deltaq(startJoints, endJoints))),
    ROBOT_PARAMS)

\* C17: at every grid point, for every path velocity sd >= 0 and path
\* acceleration sdd, inverseDynamics(start + s*deltaq, sd*deltaq, sdd*deltaq)
\* equals A(s)*sdd + B(s)*sd^2 + C(s) on every joint (to within 20 units,
\* 2e-4 Nm, the rounding of the fixed-point products)
C17_ProjectionExact ==
  CoefficientsReady =>
    \A k \in 0..N_GRID : \A r \in ProbeRates : \A i \in JOINTS :
      Abs(TorqueOnPath(k, r[1], r[2])[i]
          - (FxMul(coeffs[k].A[i], r[2]) + FxMul(coeffs[k].B[i], FxMul(r[1], r[1]))
             + coeffs[k].C[i])) <= 20

\* the coefficients of a move on which some joint has a gravity term and a
\* velocity term
C17_Witness ==
  /\ CoefficientsReady
  /\ \E k \in 0..N_GRID : \E i \in JOINTS :
       coeffs[k].A[i] # 0 /\ coeffs[k].B[i] # 0 /\ coeffs[k].C[i] # 0

\* the velocity limit curve has just been computed
LimitsReady == pc = "backward" /\ ValidCall

\* the path velocities at which getAccBounds is examined at grid point k: rest,
\* the velocity limit of the point and twice that limit
ProbeVelocities(k) == {0, s_dot_limit[k], Sat(2 * s_dot_limit[k])}

\* total_bias of joint i: b * sd^2 + c + friction
TotalBias(k, i, sd) ==
  Add(Add(FxMul(coeffs[k].B[i], FxMul(sd, sd)), coeffs[k].C[i]),
      calculateJointFriction(i, FxMul(sd, Deltaq(startJoints, endJoints)[i])))

\* a joint the path acceleration does not act on has its bias outside the
\* torque limits
StaticJointInfeasible(k, sd) ==
  \E i \in JOINTS :
    /\ coeffs[k].A[i] = 0
    /\ (TotalBias(k, i, sd) > MAX_TORQUES[i] \/ TotalBias(k, i, sd) < -MAX_TORQUES[i])

\* the acceleration sdd keeps the torque of every joint on which it acts
\* within the limits (to within 20 units, 2e-4 Nm)
AccFeasible(k, sd, sdd) ==
  \A i \in JOINTS :
    coeffs[k].A[i] # 0 =>
      Abs(Add(FxMul(coeffs[k].A[i], sdd), TotalBias(k, i, sd))) <= MAX_TORQUES[i] + 20

\* the ends of the interval of joint i, swapped when a is negative
JointInterval(k, i, sd) ==
  LET a  == coeffs[k].A[i]
      lo == FxDiv(Sub(-MAX_TORQUES[i], TotalBias(k, i, sd)), a)
      hi == FxDiv(Sub(MAX_TORQUES[i], TotalBias(k, i, sd)), a)
  IN  IF a > 0 THEN <<lo, hi>> ELSE <<hi, lo>>

\* u_min > u_max: the intervals of two joints (or the two ends of one) miss
\* each other
IntervalsDisjoint(k, sd) ==
  \E i, j \in {n \in JOINTS : coeffs[k].A[n] # 0} :
    JointInterval(k, i, sd)[1] > JointInterval(k, j, sd)[2]

StaticSatisfiable(k, i) ==
  LET b == coeffs[k].B[i]
      c == coeffs[k].C[i]
  IN  IF b > 0 THEN c <= MAX_TORQUES[i]
      ELSE IF b < 0 THEN c >= -MAX_TORQUES[i]
      ELSE -MAX_TORQUES[i] <= c /\ c <= MAX_TORQUES[i]

\* the largest sd^2 that satisfies the constraint of joint i at grid point k;
\* INF when every sd^2 does
LargestSdSq(k, i) ==
  LET b == coeffs[k].B[i]
      c == coeffs[k].C[i]
  IN  IF b > 0 THEN FxDiv(MAX_TORQUES[i] - c, b)
      ELSE IF b < 0 THEN FxDiv(-MAX_TORQUES[i] - c, b)
      ELSE INF

\* the least of the joints' largest admissible sd^2 at grid point k
LeastSdSq(k) ==
  CHOOSE m \in {LargestSdSq(k, i) : i \in JOINTS} :
    \A i \in JOINTS : m <= LargestSdSq(k, i)

\* C19: at every grid point the velocity limit is 0 if the static constraint
\* -T <= B*sd^2 + C <= T of some joint is satisfied by no sd (for B > 0,
\* B < 0 and B = 0), and otherwise the non-negative square root of the
\* minimum over the joints of the largest admissible sd^2; at the first and
\* the last grid point it is 0
C19_VelocityLimitCurve ==
  LimitsReady =>
    /\ s_dot_limit[0] = 0
    /\ s_dot_limit[N_GRID] = 0
    /\ \A k \in 1..(N_GRID - 1) :
         IF \E i \in JOINTS : ~StaticSatisfiable(k, i)
         THEN s_dot_limit[k] = 0
         ELSE /\ s_dot_limit[k] >= 0
              /\ s_dot_limit[k] = FxSqrt(LeastSdSq(k))

\* a grid point whose limit is finite and positive, set by a joint that is
\* not the last one with a velocity term, on a move with joints that move in
\* both directions
C19_Witness ==
  /\ LimitsReady
  /\ \E k \in 1..(N_GRID - 1) :
       /\ 0 < s_dot_limit[k] /\ s_dot_limit[k] < INF
       /\ \E i, j \in JOINTS :
            /\ i < j
            /\ coeffs[k].B[i] > 0
            /\ coeffs[k].B[j] < 0
            /\ LargestSdSq(k, i) < LargestSdSq(k, j)
            /\ \A n \in JOINTS : n > j => coeffs[k].B[n] = 0 \/ LargestSdSq(k, n) > LargestSdSq(k, i)

\* the backward pass has just finished
BackwardDone == pc = "forward" /\ ValidCall

\* C20: after the backward pass beta_curve[N_GRID] = 0 and, at every grid
\* index k, 0 <= beta_curve[k] <= s_dot_limit[k]; hence beta_curve[0] = 0
C20_BetaUnderLimit ==
  BackwardDone =>
    /\ beta_curve[N_GRID] = 0
    /\ beta_curve[0] = 0
    /\ \A k \in 0..N_GRID : 0 <= beta_curve[k] /\ beta_curve[k] <= s_dot_limit[k]

\* a backward curve that runs on the limit curve at one grid point and
\* strictly between 0 and the limit at another
C20_Witness ==
  /\ BackwardDone
  /\ \E k \in 1..(N_GRID - 1) : beta_curve[k] = s_dot_limit[k] /\ beta_curve[k] > 0
  /\ \E k \in 1..(N_GRID - 1) : 0 < beta_curve[k] /\ beta_curve[k] < s_dot_limit[k]

\* the acceleration bounds the backward pass evaluates for beta_curve[k]: those
\* of grid point k + 1 at the velocity min(beta_curve[k+1], s_dot_limit[k+1])
BackwardBounds(k) ==
  getAccBounds(coeffs, Deltaq(startJoints, endJoints), k + 1,
               Min2(beta_curve[k + 1], s_dot_limit[k + 1]))

\* the backward pass met infeasible bounds at some grid point
MetInfeasible == \E k \in 0..(N_GRID - 1) : ~BackwardBounds(k).ok

\* C21: when the acceleration bounds evaluated at grid point k+1 are
\* infeasible during the backward pass, beta_curve[k] is 0 and planning goes
\* on to a solved trajectory of 201 samples: no error is raised and the result
\* is not the linear fallback
C21_InfeasibilityAbsorbed ==
  (ValidCall /\ beta_curve # <<>>) =>
    /\ \A k \in 0..(N_GRID - 1) : ~BackwardBounds(k).ok => beta_curve[k] = 0
    /\ (Done /\ MetInfeasible) =>
         /\ result.kind = "ok"
         /\ Len(result.points) = N_GRID + 1
         /\ smooth_s_ddot # <<>>

\* a call whose backward pass met infeasible bounds at an interior grid point
\* with a positive velocity limit has returned a solved trajectory
C21_Witness ==
  /\ Done /\ ValidCall
  /\ beta_curve # <<>>
  /\ \E k \in 1..(N_GRID - 1) : ~BackwardBounds(k).ok /\ s_dot_limit[k] > 0
  /\ result.kind = "ok"
  /\ Len(result.points) = N_GRID + 1

\* the forward pass has just finished
ForwardDone == pc = "smooth" /\ ValidCall

\* the acceleration the forward pass may record at step k, at velocity sd with
\* bounds b: the maximum of the bounds, or the acceleration that leads to
\* beta_curve[k+1] exactly when the maximum would lead above it
GreedyOrClipped(k, sd, b, acc) ==
  LET max_next_sq == FxMul(beta_curve[k + 1], beta_curve[k + 1])
      cur_sq      == FxMul(sd, sd)
  IN  IF Add(cur_sq, FxMul(b.max, 2 * ds)) > max_next_sq
      THEN acc = FxDiv(Sub(max_next_sq, cur_sq), 2 * ds)
      ELSE acc = b.max

C23_TimeSteps ==
  (Solved /\ ValidCall) =>
    LET sd == PathVelocities(smooth_s_ddot)
    IN  /\ result.points[1].time = 0
        /\ \A k \in 0..(N_GRID - 1) :
             LET dt    == result.points[k + 2].time - result.points[k + 1].time
                 v_avg == (sd[k] + sd[k + 1]) \div 2
             IN  /\ dt >= 10
                 /\ v_avg > 10 => dt = Max2(FxDiv(ds, v_avg), 10)
                 /\ v_avg <= 10 => dt = 1000

\* a solved trajectory with a segment on which the path stands still, taken
\* in the fixed step, and a segment on which it moves
C23_Witness ==
  /\ Solved /\ ValidCall
  /\ LET sd == PathVelocities(smooth_s_ddot)
     IN  /\ \E k \in 0..(N_GRID - 1) :
              /\ (sd[k] + sd[k + 1]) \div 2 <= 10
              /\ result.points[k + 2].time - result.points[k + 1].time = 1000
         /\ \E k \in 0..(N_GRID - 1) :
              /\ (sd[k] + sd[k + 1]) \div 2 > 10
              /\ result.points[k + 2].time - result.points[k + 1].time
                   = FxDiv(ds, (sd[k] + sd[k + 1]) \div 2)

\* C25: a solved trajectory has exactly N_GRID + 1 = 201 samples: the initial
\* sample at time 0 with the start angles and zero velocity and acceleration,
\* then for k = 1..N_GRID the sample with angles start + (k/N_GRID)*deltaq,
\* velocities sd_k*deltaq and accelerations (smoothed acceleration of segment
\* k-1)*deltaq; every torque field is 0; for the solved trajectory and for the
\* linear fallback the returned duration is the timestamp of the last sample
C25_SampleContents ==
  (Done /\ ValidCall) =>
    /\ result.duration = LastFrame.time
    /\ Solved =>
         LET startq == Angles(startJoints)
             deltaq == Deltaq(startJoints, endJoints)
             sd     == PathVelocities(smooth_s_ddot)
         IN  /\ Len(result.points) = N_GRID + 1
             /\ result.points[1] = Frame([i \in 1..6 |-> JointState(startq[i], 0, 0, 0)], 0)
             /\ \A k \in 1..N_GRID : \A i \in 1..6 :
                  result.points[k + 1].joints[i]
                    = JointState(startq[i] + FxMul(FxDiv(k * SCALE, N_GRID * SCALE), deltaq[i]),
                                 FxMul(sd[k], deltaq[i]),
                                 FxMul(smooth_s_ddot[k - 1], deltaq[i]),
                                 0)

\* a solved trajectory of a move of several joints, with a sample that has a
\* velocity and an acceleration
C25_Witness ==
  /\ Solved /\ ValidCall
  /\ Len(result.points) = N_GRID + 1
  /\ result.duration = LastFrame.time
  /\ \E i, j \in 1..6 :
       /\ i # j
       /\ Deltaq(startJoints, endJoints)[i] # 0
       /\ Deltaq(startJoints, endJoints)[j] # 0
       /\ \E k \in 2..N_GRID :
            /\ result.points[k].joints[i].velocity # 0
            /\ result.points[k].joints[i].acceleration # 0
            /\ result.points[k].joints[j].velocity # result.points[k].joints[i].velocity

\* how many times the user clicks in the runs examined for progress
LiveClicks == 2

LiveNext ==
  \/ (clicks < LiveClicks /\ ClickMode)
  \/ (clicks < LiveClicks /\ ClickPlay)
  \/ (clicks < LiveClicks /\ ClickReset)
  \/ loopCallback
  \/ PlanReturns
  \/ Wait
  \/ PlannerNext

\* the planner is inside one of its passes
PlannerRunning == pc \notin {"idle", "done"}

\* a requested animation frame is due while the clock of the runs examined
\* has not run out
FrameDue == Idle /\ requestRef /\ \E d \in TickSteps : now + d <= MaxNow

\* the browser calls every requested animation frame, and the planner, being
\* synchronous code, runs to its end and returns to its caller: weak fairness
\* of loopCallback, of PlannerNext and of PlanReturns, the first two written
\* out as []<>~(ENABLED <<A>>_vars) \/ []<><<A>>_vars with the condition
\* under which the action is enabled and the steps that are its steps
LiveSpec ==
  /\ Init
  /\ [][LiveNext]_vars
  /\ ([]<>(~FrameDue) \/ []<><<FrameDue /\ now' > now>>_vars)
  /\ ([]<>(~PlannerRunning) \/ []<><<PlannerRunning /\ pc' # pc>>_vars)
  /\ WF_vars(PlanReturns)

(* ---------------------------------------------------------------------- *)
(* Properties of the controller                                            *)

(* ---------------------------------------------------------------------- *)
\* a step of loopCallback in the Moving state with a trajectory to play: the
\* clock advances while a frame is pending and playback is on
MovingTick ==
  /\ now' > now
  /\ requestRef
  /\ isPlayingRef
  /\ mode = MODE_TOPPRA
  /\ dwellStartTimeRef = <<>>
  /\ Len(trajectoryRef) > 0

\* traj[traj.length - 1]
FinalSample(traj) == traj[Len(traj)]

\* the move-elapsed time of the tick that ends at now'
MoveTimeOfTick == Elapsed(now') - Anchor(Elapsed(now'))

\* the angle, velocity and acceleration of every joint agree
SameMotion(a, b) ==
  /\ Len(a) = Len(b)
  /\ \A i \in 1..Len(a) :
       /\ a[i].angle = b[i].angle
       /\ a[i].velocity = b[i].velocity
       /\ a[i].acceleration = b[i].acceleration

\* C10: on a Moving tick whose move-elapsed time is greater than the
\* timestamp of the last trajectory sample, the controller emits the final
\* sample and records the time of the tick as the dwell start; on every other
\* Moving tick the dwell start stays unset
C10_DwellAtEndOnly ==
  [][MovingTick =>
       IF MoveTimeOfTick > FinalSample(trajectoryRef).time
       THEN /\ SameMotion(jointsRef', FinalSample(trajectoryRef).joints)
            /\ dwellStartTimeRef' = <<now'>>
       ELSE dwellStartTimeRef' = <<>>]_vars

\* a tick has just passed the end of the trajectory: the final sample is
\* shown and the dwell starts at the current clock
C10_Witness ==
  /\ mode = MODE_TOPPRA
  /\ Len(trajectoryRef) > 0
  /\ dwellStartTimeRef = <<now>>
  /\ time - trajStartElapsedRef > FinalSample(trajectoryRef).time
  /\ SameMotion(jointsRef, FinalSample(trajectoryRef).joints)

\* n is the lowest index of traj whose timestamp is at least moveTime
FirstSampleAtOrAfter(traj, moveTime, n) ==
  /\ n \in 1..Len(traj)
  /\ traj[n].time >= moveTime
  /\ \A m \in 1..(n - 1) : traj[m].time < moveTime

\* C11: on a Moving tick whose move-elapsed time (elapsed minus the move-start
\* anchor) does not exceed the last sample's timestamp, the emitted joint
\* state is the first sample of the active trajectory whose timestamp is at
\* least the move-elapsed time
C11_FirstSampleNotBefore ==
  [][(MovingTick /\ MoveTimeOfTick <= FinalSample(trajectoryRef).time) =>
       \E n \in 1..Len(trajectoryRef) :
         /\ FirstSampleAtOrAfter(trajectoryRef, MoveTimeOfTick, n)
         /\ SameMotion(jointsRef', trajectoryRef[n].joints)]_vars

\* a tick in the middle of a move has just shown a sample that is neither the
\* first nor the last one
C11_Witness ==
  /\ mode = MODE_TOPPRA
  /\ dwellStartTimeRef = <<>>
  /\ caller = "none"
  /\ trajStartElapsedRef >= 0
  /\ \E n \in 2..(Len(trajectoryRef) - 1) :
       /\ FirstSampleAtOrAfter(trajectoryRef, time - trajStartElapsedRef, n)
       /\ SameMotion(jointsRef, trajectoryRef[n].joints)

\* a step of loopCallback in the Dwelling state
DwellingTick ==
  /\ now' > now
  /\ requestRef
  /\ isPlayingRef
  /\ mode = MODE_TOPPRA
  /\ dwellStartTimeRef # <<>>

\* C12: every Dwelling tick emits the configuration reached at the end of the
\* move (the joint angles of the final trajectory sample) with velocity and
\* acceleration 0 on every joint, and a new move is planned on such a tick
\* only if more than 0.5 s have passed since the recorded dwell start
C12_DwellHoldsThenPlans ==
  [][DwellingTick =>
       /\ Len(trajectoryRef) > 0
       /\ Len(jointsRef') = Len(FinalSample(trajectoryRef).joints)
       /\ \A i \in 1..Len(jointsRef') :
            /\ jointsRef'[i].angle = FinalSample(trajectoryRef).joints[i].angle
            /\ jointsRef'[i].velocity = 0
            /\ jointsRef'[i].acceleration = 0
       /\ (pc' = "call" => (now' - dwellStartTimeRef[1]) * MS > DWELL_TIME)]_vars

\* a Dwelling tick has just held the final configuration and, the dwell being
\* over, called the planner from it
C12_Witness ==
  /\ mode = MODE_TOPPRA
  /\ isDwelling
  /\ dwellStartTimeRef # <<>>
  /\ pc = "call"
  /\ caller = "tick"
  /\ (now - dwellStartTimeRef[1]) * MS > DWELL_TIME
  /\ \A i \in JOINTS :
       /\ jointsRef[i].angle = FinalSample(trajectoryRef).joints[i].angle
       /\ jointsRef[i].velocity = 0

\* the joints stand where the active trajectory begins: none of its later
\* samples has been shown yet
AtTrajectoryStart ==
  /\ Len(trajectoryRef) > 0
  /\ Len(jointsRef) = Len(trajectoryRef[1].joints)
  /\ \A i \in 1..Len(jointsRef) : jointsRef[i].angle = trajectoryRef[1].joints[i].angle

\* the first Moving tick after an activation of the TOPPRA mode: the anchor
\* is the 0 the mode effect wrote (line 116)
FirstTickAfterActivation == MovingTick /\ trajStartElapsedRef = 0 /\ AtTrajectoryStart

\* C13: on the first Moving tick after the TOPPRA mode was activated the
\* move-elapsed time is approximately 0, that is no more than the one frame
\* interval that has passed since the activation, whatever the play/pause
\* state and the time accumulated before the activation
C13_ActivationAnchorsMove ==
  [][FirstTickAfterActivation => MoveTimeOfTick <= (now' - now) * MS]_vars

\* planNextToppraMove has left its while loop and calls the planner on the
\* current joints and the target
TargetSampled == pc = "call" /\ caller # "none"

\* every angle lies in the SAFE_LIMITS interval of its joint
WithinSafeLimits(joints) ==
  \A i \in 1..Len(joints) :
    SAFE_LIMITS[i][1] <= joints[i].angle /\ joints[i].angle <= SAFE_LIMITS[i][2]

\* the distance of candidate n of the stream from the current configuration
DistOfAttempt(stream, n) ==
  CandidateDist(startJoints, Candidate(startJoints, stream[n]))

\* C14 (as stated): the sampling draws 1 to 15 candidates, each inside the
\* SAFE_LIMITS, and the target given to the planner is the first candidate
\* whose distance from the current configuration exceeds 2.0 rad, or the
\* 15th candidate if none does
C14_TargetFirstBeyond ==
  TargetSampled =>
    \E stream \in RandomStreams : \E n \in 1..MAX_ATTEMPTS :
      /\ endJoints = Candidate(startJoints, stream[n])
      /\ \A m \in 1..n : WithinSafeLimits(Candidate(startJoints, stream[m]))
      /\ \A m \in 1..(n - 1) : ~(DistOfAttempt(stream, m) > 2 * SCALE)
      /\ (DistOfAttempt(stream, n) > 2 * SCALE \/ n = MAX_ATTEMPTS)

\* C14 (amended): the sampling draws 1 to 15 candidates, each inside the
\* SAFE_LIMITS, and the target given to the planner is the first candidate
\* whose distance from the current configuration is at least 2.0 rad, or the
\* 15th candidate if none is
C14_TargetFirstAtLeast ==
  TargetSampled =>
    \E stream \in RandomStreams : \E n \in 1..MAX_ATTEMPTS :
      /\ endJoints = Candidate(startJoints, stream[n])
      /\ \A m \in 1..n : WithinSafeLimits(Candidate(startJoints, stream[m]))
      /\ \A m \in 1..(n - 1) : DistOfAttempt(stream, m) < 2 * SCALE
      /\ (DistOfAttempt(stream, n) >= 2 * SCALE \/ n = MAX_ATTEMPTS)

\* the first candidate lay exactly 2.0 rad from the current configuration and
\* was taken as the target
C14_Witness ==
  /\ TargetSampled
  /\ CandidateDist(startJoints, endJoints) = 2 * SCALE
  /\ \E stream \in RandomStreams : endJoints = Candidate(startJoints, stream[1])

\* a step of loopCallback that emits a joint state: playback is on and the
\* tick does not take the early return of line 152
EmittingTick ==
  /\ now' > now
  /\ requestRef
  /\ isPlayingRef
  /\ ~(mode = MODE_TOPPRA /\ dwellStartTimeRef = <<>> /\ Len(trajectoryRef) = 0)

\* the torque of every joint is the inverse dynamics of these very joints
\* plus the friction at the joint's own velocity
TorqueOfOwnState(joints) ==
  /\ Len(joints) = 6
  /\ \A i \in JOINTS :
       joints[i].torque = Add(calculateInverseDynamics(joints, ROBOT_PARAMS)[i],
                              calculateJointFriction(i, joints[i].velocity))

\* C15: on every tick that emits a joint state, in every mode, the torque
\* attached to each emitted joint i is inverseDynamics(emitted state)[i] plus
\* friction(i, emitted velocity of joint i), computed from the state emitted
\* on that tick
C15_TorqueOfEmittedState == [][EmittingTick => TorqueOfOwnState(jointsRef')]_vars

\* a sample with a moving joint has been emitted during a TOPPRA move, with
\* a torque to which friction contributes
C15_Witness ==
  /\ mode = MODE_TOPPRA
  /\ caller = "none"
  /\ time > 0
  /\ TorqueOfOwnState(jointsRef)
  /\ \E i \in JOINTS :
       /\ jointsRef[i].velocity # 0
       /\ calculateJointFriction(i, jointsRef[i].velocity) # 0

\* C16: once a trajectory is stored as the active trajectory no tick changes
\* any of its samples or its length: the active trajectory only ever changes
\* by being replaced with the trajectory the planner has just returned, and a
\* tick, which attaches the torque to the state it emits, leaves it as it is
C16_TrajectoryNeverMutated ==
  [][/\ (trajectoryRef' # trajectoryRef =>
            pc = "done" /\ caller # "none" /\ trajectoryRef' = result.points)
     /\ (now' > now => trajectoryRef' = trajectoryRef)]_vars

\* a tick has emitted a sample of the active trajectory with its torque
\* attached, and the sample in the trajectory still has the torque the
\* planner gave it
C16_Witness ==
  /\ mode = MODE_TOPPRA
  /\ caller = "none"
  /\ time > 0
  /\ \E n \in 1..Len(trajectoryRef) :
       /\ SameMotion(jointsRef, trajectoryRef[n].joints)
       /\ \E i \in JOINTS : jointsRef[i].torque # trajectoryRef[n].joints[i].torque

\* planNextToppraMove, called by a tick whose dwell had expired, hands the
\* planner's trajectory over
ReplanReturns == pc = "done" /\ caller = "tick" /\ caller' = "none"

\* C24: when the dwell has expired and the controller has replanned, the
\* active trajectory is the newly planned one, the dwell start is cleared and
\* the move-start anchor is marked for reset; the first Moving tick after the
\* replan then has move-elapsed time 0 and emits the first sample of the new
\* trajectory, whose timestamp is 0, and every Moving tick emits a sample of
\* the trajectory that is active
C24_ReplanRestartsMove ==
  [][/\ ReplanReturns =>
          /\ trajectoryRef' = result.points
          /\ dwellStartTimeRef' = <<>>
          /\ trajStartElapsedRef' < 0
     /\ (MovingTick /\ trajStartElapsedRef < 0) =>
          /\ MoveTimeOfTick = 0
          /\ trajectoryRef[1].time = 0
          /\ SameMotion(jointsRef', trajectoryRef[1].joints)
          /\ trajStartElapsedRef' = time'
     /\ MovingTick =>
          \E n \in 1..Len(trajectoryRef) : SameMotion(jointsRef', trajectoryRef[n].joints)]_vars

\* the first tick after a replan has just shown the first sample of the new
\* trajectory: the anchor is the elapsed time of this tick, later than the
\* activation of the mode
C24_Witness ==
  /\ mode = MODE_TOPPRA
  /\ caller = "none"
  /\ dwellStartTimeRef = <<>>
  /\ ~isDwelling
  /\ trajStartElapsedRef > 0
  /\ time = trajStartElapsedRef
  /\ Len(trajectoryRef) > 0
  /\ SameMotion(jointsRef, trajectoryRef[1].joints)

\* planNextToppraMove calls the planner
PlanCalled == pc' = "call" /\ caller = "none" /\ caller' # "none"

\* C26: every trajectory the controller plans, on the activation of the
\* TOPPRA mode or when a dwell has expired, is planned from the joint state
\* emitted last, so that the angles of its first sample are the angles of
\* that state; and the first sample of the move planned after a dwell has the
\* angles of the last sample of the move before it
C26_PlansFromEmittedState ==
  [][/\ PlanCalled => Angles(startJoints') = Angles(jointsRef)
     /\ (pc = "done" /\ caller # "none" /\ caller' = "none") =>
          /\ Angles(trajectoryRef'[1].joints) = Angles(startJoints)
          /\ Angles(trajectoryRef'[1].joints) = Angles(jointsRef)
          /\ (caller = "tick" /\ trajectoryRef # <<>>) =>
               Angles(trajectoryRef'[1].joints) = Angles(FinalSample(trajectoryRef).joints)]_vars

\* the second move has just been planned, from the configuration in which the
\* first move ended
C26_Witness ==
  /\ mode = MODE_TOPPRA
  /\ caller = "none"
  /\ trajStartElapsedRef < 0
  /\ Len(trajectoryRef) = N_GRID + 1
  /\ Angles(jointsRef) # Angles(INITIAL_JOINTS)
  /\ Angles(trajectoryRef[1].joints) = Angles(jointsRef)
  /\ Angles(FinalSample(trajectoryRef).joints) # Angles(jointsRef)

\* C27: in TOPPRA mode the active trajectory is never empty when a tick can
\* run, so the branch of the loop that replans and returns without requesting
\* a frame is never taken; and whenever playback is on a frame is pending, so
\* every tick run while playing has requested the next one and the loop does
\* not stall
C27_LoopNeverStalls ==
  caller = "none" =>
    /\ mode = MODE_TOPPRA => Len(trajectoryRef) > 0
    /\ isPlaying => (isPlayingRef /\ requestRef)

\* playback is on again in TOPPRA mode after a pause: a tick has emitted a
\* sample of the move and the next frame is pending
C27_Witness ==
  /\ mode = MODE_TOPPRA
  /\ caller = "none"
  /\ clicks >= 3
  /\ isPlaying
  /\ requestRef
  /\ dwellStartTimeRef = <<>>
  /\ Len(trajectoryRef) > 0
  /\ time > 0
  /\ \E n \in 2..Len(trajectoryRef) : SameMotion(jointsRef, trajectoryRef[n].joints)

\* the joints are at sample n of the trajectory
ShownAt(joints, traj, n) == n \in 1..Len(traj) /\ SameMotion(joints, traj[n].joints)

\* the index of the sample a Moving tick with this move-elapsed time emits
EmittedIndex(traj, moveTime) ==
  IF FindIndex(traj, moveTime) # 0 THEN FindIndex(traj, moveTime) ELSE Len(traj)

\* C28: under any interleaving of ticks with pause, resume and the reset
\* button, while the same trajectory is active in TOPPRA mode the index of
\* the emitted sample never decreases from one tick to the next, and the
\* move-elapsed time is never negative
C28_SampleIndexMonotone ==
  [][MovingTick =>
       /\ MoveTimeOfTick >= 0
       /\ \A n \in 1..Len(trajectoryRef) :
            (ShownAt(jointsRef, trajectoryRef, n)
               /\ \A m \in 1..(n - 1) : ~ShownAt(jointsRef, trajectoryRef, m))
              => EmittedIndex(trajectoryRef, MoveTimeOfTick) >= n]_vars

\* a click on play while paused in the middle of a move: a sample of the move
\* other than its first is on display, and the time has not been reset since
\* that sample was shown
ResumeInMove ==
  /\ ~isPlaying
  /\ isPlaying'
  /\ mode = MODE_TOPPRA
  /\ mode' = mode
  /\ dwellStartTimeRef = <<>>
  /\ trajStartElapsedRef >= 0
  /\ time > 0
  /\ \E n \in 2..Len(trajectoryRef) : ShownAt(jointsRef, trajectoryRef, n)

MovingPhase ==
  /\ mode = MODE_TOPPRA
  /\ isPlaying
  /\ caller = "none"
  /\ dwellStartTimeRef = <<>>

\* the Dwelling phase: playback is on in TOPPRA mode and the dwell has started
DwellingPhase ==
  /\ mode = MODE_TOPPRA
  /\ isPlaying
  /\ caller = "none"
  /\ dwellStartTimeRef # <<>>

\* the user has paused or left the TOPPRA mode
PlaybackLeft == ~isPlaying \/ mode # MODE_TOPPRA

\* the clock of the runs examined has this many milliseconds left
RoomFor(ms) == now + ms <= MaxNow

====
